---- MODULE Spec2Model ----
(***************************************************************************)
(* The signaling server of src/server/server.js as a state machine: the    *)
(* in-memory room registry, the per-socket session fields, the socket.io   *)
(* broadcast groups, and one action per socket event, REST request and     *)
(* timer tick.  Every handler runs to completion (Node event loop), so      *)
(* each action is one whole handler.                                        *)
(***************************************************************************)
EXTENDS Integers, Sequences, FiniteSets, TLC

\* ---------------------------------------------------------------- bounds
NumConns == 3        \* connections the transport ever accepts
MaxClock == 2        \* clock advances, each of ClockStep milliseconds
NumClients == 2      \* browser pages running the client hook
MaxInbox == 3        \* deliveries in flight to a socket when a page renegotiates
MaxCandidates == 2   \* candidates the peer connections of a page gather

\* ------------------------------------------------------------- constants
Conns == 1 .. NumConns

\* JavaScript undefined, for a string-valued slot (a room code, a `to`).
Undefined == <<"undefined">>
\* JavaScript undefined, for a userName slot.
NoName == "<undefined>"

Digits == <<"1", "2", "3", "4", "5", "6", "7", "8", "9">>
\* socket.id of connection c: a transport-issued string containing a
\* lowercase letter, so that it is never equal to an uppercased room code.
SocketId(c) == <<"s", Digits[c]>>
UnknownId == <<"s", "0">>

\* const chars = 'ABCDEFGHIJKLMNOPQRSTUVWXYZ0123456789'
chars == <<"A", "B", "C", "D", "E", "F", "G", "H", "I", "J", "K", "L", "M",
           "N", "O", "P", "Q", "R", "S", "T", "U", "V", "W", "X", "Y", "Z",
           "0", "1", "2", "3", "4", "5", "6", "7", "8", "9">>
LowerLetters == <<"a", "b", "c", "d", "e", "f", "g", "h", "i", "j", "k", "l",
                  "m", "n", "o", "p", "q", "r", "s", "t", "u", "v", "w", "x",
                  "y", "z">>

\* String.prototype.toUpperCase on one character, then on a string.
UpperTable == [ch \in {LowerLetters[i] : i \in 1 .. 26} |->
                  chars[CHOOSE i \in 1 .. 26 : LowerLetters[i] = ch]]
UpperChar(ch) == IF ch \in DOMAIN UpperTable THEN UpperTable[ch] ELSE ch
\* Mutant of ToUpperCase: the code is used as given.
ToUpperCase_AsGiven(s) == s

ToUpperCase(s) == [i \in 1 .. Len(s) |-> UpperChar(s[i])]

\* Mutant of generateRoomCode: the hyphen is left out.
generateRoomCode_NoHyphen(rnd) == [j \in 1 .. 8 |-> chars[rnd[j] + 1]]

\* The for loop of generateRoomCode from iteration i on, code being the
\* string built so far; rnd[i + 1] is the value of
\* Math.floor(Math.random() * chars.length) in iteration i.
RECURSIVE GenLoop(_, _, _)
GenLoop(i, code, rnd) ==
    IF i < 8
    THEN LET code1 == IF i = 4 THEN Append(code, "-") ELSE code
         IN  GenLoop(i + 1, Append(code1, chars[rnd[i + 1] + 1]), rnd)
    ELSE code

\* const generateRoomCode = () => {...}
generateRoomCode(rnd) == GenLoop(0, <<>>, rnd)

\* The random draws the model lets Math.random produce: the same index in
\* every iteration, or indices that step through the alphabet.
RandomDraws == {[i \in 1 .. 8 |-> 0], [i \in 1 .. 8 |-> 1]}
CodeDraws ==
    {[i \in 1 .. 8 |-> (i * m + d) % 36] : m \in {0, 7}, d \in {0, 1, 25, 35}}
GenCodes == {generateRoomCode(rnd) : rnd \in RandomDraws}
CodeA == generateRoomCode([i \in 1 .. 8 |-> 0])
CodeB == generateRoomCode([i \in 1 .. 8 |-> 1])
LowerA == [j \in 1 .. 9 |-> IF j = 5 THEN "-" ELSE "a"]

\* roomCode values clients put in join-room.
RawCodes == {LowerA, CodeA, CodeB}
\* userName values clients put in join-room: the client of a connection
\* sends the same name in every join-room; the first one sends none.
NameInputs(c) == IF c = 1 THEN {NoName} ELSE {"Ann"}
\* `to` values clients put in offer / answer / ice-candidate.
Targets == {SocketId(c) : c \in Conns} \cup {CodeA, UnknownId}
RelayKinds == {"offer", "answer", "ice-candidate"}
ToggleKinds == {"toggle-audio", "toggle-video", "toggle-screen-share"}
Payload == "blob"

\* const staleThreshold = 30 * 60 * 1000, and the setInterval period.
staleThreshold == 30 * 60 * 1000
ReaperInterval == 30 * 60 * 1000
ClockStep == staleThreshold

\* ----------------------------------------------------------------- state
VARIABLES
    rooms,        \* const rooms = new Map(): code -> {participants, createdAt}
    status,       \* per connection: "new", "connected" or "closed"
    roomCode,     \* socket.roomCode
    userName,     \* socket.userName
    groups,       \* socket.io rooms the socket has joined (beside its own id)
    now,          \* the wall clock, new Date(), in milliseconds
    crashed,      \* an uncaught exception has terminated the process
    sent,         \* the deliveries made by the last handler, in order
    answers,      \* history: the isInitiator reply each listed entry got
    reaped,       \* history: <<codes the reaper deleted>> right after a
                  \* tick, <<>> after any other step
    client,       \* the pages: the refs of the useWebRTC hook, and the
                  \* sockets whose 'connect' handler has emitted join-room
    inbox,        \* per socket: deliveries the page has not handled yet
    offers,       \* history of the offers the pages sent and handled
    active,       \* history: per room, the time of its creation or of the
                  \* last join or leave that changed its participants
    ice           \* the pages: pendingIceCandidatesRef, the description
                  \* state of the peer connection, the suspended handler,
                  \* and the history of the addIceCandidate calls

vars == <<rooms, status, roomCode, userName, groups, now, crashed, sent,
          answers, reaped, client, inbox, offers, active, ice>>

\* if (value): JavaScript truthiness of a string-valued slot.
Truthy(v) == v /= Undefined /\ v /= <<>>
\* userName || 'Anonymous'
OrAnonymous(n) == IF n = NoName \/ n = "" THEN "Anonymous" ELSE n

\* One delivery: event ev with payload data reaches connection to.  by is
\* the connection whose event the handler that emitted it was serving.
Msg(ev, to, by, data) == [ev |-> ev, to |-> to, by |-> by, data |-> data]

\* The i-th smallest element of a finite set of integers.
Nth(S, i) == CHOOSE x \in S : Cardinality({y \in S : y < x}) = i - 1

\* socket.to(room): every live socket but the sender that is in the
\* socket.io room `room`, i.e. whose id is `room` or that joined `room`.
\* st is the connection status in force when the broadcast is made.
Recipients(c, room, st, grp) ==
    {r \in Conns : /\ r /= c
                   /\ st[r] = "connected"
                   /\ (SocketId(r) = room \/ room \in grp[r])}

\* Mutant of Broadcast: io.to(room) instead of socket.to(room), so the
\* sender is not left out.
Broadcast_WithSender(c, room, ev, data, st, grp) ==
    LET R == Recipients(c, room, st, grp)
             \cup {r \in {c} : st[c] = "connected" /\ room \in grp[c]}
    IN  [i \in 1 .. Cardinality(R) |-> Msg(ev, Nth(R, i), c, data)]

\* socket.to(room).emit(ev, data)
Broadcast(c, room, ev, data, st, grp) ==
    LET R == Recipients(c, room, st, grp)
    IN  [i \in 1 .. Cardinality(R) |-> Msg(ev, Nth(R, i), c, data)]

EmptyRooms == [k \in {} |-> 0]
\* {participants: [], createdAt: new Date()}
NewRoom == [participants |-> <<>>, createdAt |-> now]
\* rooms.set(code, room) and rooms.delete(code)
MapSet(m, k, v) == [x \in DOMAIN m \cup {k} |-> IF x = k THEN v ELSE m[x]]
MapDelete(m, k) == [x \in DOMAIN m \ {k} |-> m[x]]

\* participants.filter(p => p.socketId !== id)
FilterOut(ps, id) == SelectSeq(ps, LAMBDA p : p.socketId /= id)

\* The pages, and the page a socket belongs to: socket c + NumClients is
\* the socket the page of socket c gets when socket.io reconnects it.
ClientIds == 1 .. NumClients
ClientOf(c) == ((c - 1) % NumClients) + 1

\* remoteSocketIdRef, isInitiatorRef and peerConnectionRef of a fresh hook.
NewRefs == [pc |-> FALSE, isInitiator |-> FALSE, remote |-> Undefined]

\* pendingIceCandidatesRef of a fresh hook, with no peer connection and no
\* handler suspended at an await.  received counts the ice-candidate events
\* the page has handled, emitted the candidates it has sent, and added
\* lists its addIceCandidate calls.
NoTask == [kind |-> "none", from |-> Undefined, closed |-> FALSE]
NoPc == [peer |-> Undefined, remoteDescription |-> FALSE,
         localDescription |-> FALSE, signalingState |-> "stable"]
NewIce == [pending |-> <<>>, added |-> <<>>, received |-> 0, emitted |-> 0,
           pc |-> NoPc, task |-> NoTask]

Init ==
    /\ rooms = EmptyRooms
    /\ status = [c \in Conns |-> "new"]
    /\ roomCode = [c \in Conns |-> Undefined]
    /\ userName = [c \in Conns |-> NoName]
    /\ groups = [c \in Conns |-> {}]
    /\ now = 0
    /\ crashed = FALSE
    /\ sent = <<>>
    /\ answers = EmptyRooms
    /\ reaped = <<>>
    /\ client = [refs |-> [i \in ClientIds |-> NewRefs], joinSent |-> {}]
    /\ inbox = [c \in Conns |-> <<>>]
    /\ offers = [initial |-> {}, heard |-> {}, invited |-> {}]
    /\ active = EmptyRooms
    /\ ice = [i \in ClientIds |-> NewIce]

\* io.on('connection', ...): connection c is the c-th one accepted.
Connect(c) ==
    /\ ~crashed
    /\ status[c] = "new"
    /\ \A b \in 1 .. c - 1 : status[b] /= "new"
    /\ status' = [status EXCEPT ![c] = "connected"]
    /\ sent' = <<>>
    /\ UNCHANGED <<rooms, roomCode, userName, groups, now, crashed>>

\* An uncaught TypeError in a handler: socket.io has no catch around the
\* listener, so the Node process exits and with it the registry and every
\* connection.  Deliveries of the failed handler are not tracked.
Crash ==
    /\ crashed' = TRUE
    /\ rooms' = EmptyRooms
    /\ status' = [x \in Conns |-> "closed"]
    /\ groups' = [x \in Conns |-> {}]
    /\ sent' = <<>>
    /\ roomCode' = [x \in Conns |-> Undefined]
    /\ userName' = [x \in Conns |-> NoName]
    /\ UNCHANGED <<now>>

\* Mutant of RoomIsFull: the capacity test off by one.
RoomIsFull_OffByOne(room) == Len(room.participants) > 2

\* if (room.participants.length >= 2)
RoomIsFull(room) == Len(room.participants) >= 2

\* Mutant of IsInitiator: every joiner of a non-empty list is told true.
IsInitiator_AtLeastOne(parts) == Len(parts) >= 1

\* Mutant of IsInitiator: the second joiner is told true as well.
IsInitiator_UpToTwo(parts) == Len(parts) <= 2

\* isInitiator: room.participants.length === 1, after the push
IsInitiator(parts) == Len(parts) = 1

\* Mutant of RoomFullReply: io.emit instead of socket.emit.
RoomFullReply_ToAll(c) ==
    [i \in 1 .. NumConns |->
        Msg("room-full", i, c,
            [message |-> "Room is full. Only 2 participants allowed."])]

\* socket.emit('room-full', {message})
RoomFullReply(c) ==
    <<Msg("room-full", c, c,
          [message |-> "Room is full. Only 2 participants allowed."])>>

\* Mutant of RoomJoinedReply: the count is taken before the push.
RoomJoinedReply_CountBefore(c, code, parts) ==
    <<Msg("room-joined", c, c,
          [roomCode |-> code, participantCount |-> Len(parts) - 1,
           isInitiator |-> Len(parts) - 1 = 1])>>

\* socket.emit('room-joined', {roomCode, participantCount, isInitiator})
RoomJoinedReply(c, code, parts) ==
    <<Msg("room-joined", c, c,
          [roomCode |-> code, participantCount |-> Len(parts),
           isInitiator |-> IsInitiator(parts)])>>

\* room.participants.find(p => p.socketId !== socket.id), as the sequence
\* of the matching entries (empty when find returns undefined).
Others(parts, c) == FilterOut(parts, SocketId(c))

\* {socketId: socket.id, userName: userName || 'Anonymous'}
NewParticipant(c, un) ==
    [socketId |-> SocketId(c), userName |-> OrAnonymous(un)]

\* socket.on('join-room', ({ roomCode, userName }) => ...)
JoinRoom(c, rc, un) ==
    /\ ~crashed
    /\ status[c] = "connected"
    /\ IF rc = Undefined
       THEN Crash          \* undefined.toUpperCase()
       ELSE
         LET normalizedCode == ToUpperCase(rc)
             rooms1 == IF normalizedCode \in DOMAIN rooms
                       THEN rooms
                       ELSE MapSet(rooms, normalizedCode, NewRoom)
             room == rooms1[normalizedCode]
             parts == Append(room.participants, NewParticipant(c, un))
             grp1 == [groups EXCEPT ![c] = @ \cup {normalizedCode}]
         IN  IF RoomIsFull(room)
             THEN /\ rooms' = rooms1
                  /\ sent' = RoomFullReply(c)
                  /\ UNCHANGED <<status, roomCode, userName, groups, now,
                                 crashed>>
             ELSE IF Len(parts) = 2 /\ Others(parts, c) = <<>>
             THEN Crash    \* otherParticipant.socketId
             ELSE
                  /\ rooms' = MapSet(rooms1, normalizedCode,
                                [room EXCEPT !.participants = parts])
                  /\ groups' = grp1
                  /\ roomCode' = [roomCode EXCEPT ![c] = normalizedCode]
                  /\ userName' = [userName EXCEPT ![c] = un]
                  /\ sent' =
                        RoomJoinedReply(c, normalizedCode, parts)
                        \o (IF Len(parts) = 2
                            THEN Broadcast(c, normalizedCode, "user-joined",
                                     [socketId |-> SocketId(c), userName |-> un],
                                     status, grp1)
                                 \o <<Msg("existing-user", c, c,
                                        [socketId |-> Others(parts, c)[1].socketId,
                                         userName |-> Others(parts, c)[1].userName])>>
                            ELSE <<>>)
                  /\ UNCHANGED <<status, now, crashed>>

\* Mutant of LeftRooms: the emptied room is not deleted.
LeftRooms_KeepEmpty(c) ==
    LET k == roomCode[c]
    IN  IF Truthy(k) /\ k \in DOMAIN rooms
        THEN [rooms EXCEPT ![k].participants = FilterOut(@, SocketId(c))]
        ELSE rooms

\* Mutant of LeftRooms: a leave that keeps the room stamps it anew.
LeftRooms_Touch(c) ==
    LET k == roomCode[c]
    IN  IF Truthy(k) /\ k \in DOMAIN rooms
        THEN LET ps == FilterOut(rooms[k].participants, SocketId(c))
             IN  IF Len(ps) = 0
                 THEN MapDelete(rooms, k)
                 ELSE [rooms EXCEPT ![k] =
                          [participants |-> ps, createdAt |-> now]]
        ELSE rooms

\* handleDisconnect(socket): the registry after it.
LeftRooms(c) ==
    LET k == roomCode[c]
    IN  IF Truthy(k) /\ k \in DOMAIN rooms
        THEN LET ps == FilterOut(rooms[k].participants, SocketId(c))
             IN  IF Len(ps) = 0
                 THEN MapDelete(rooms, k)
                 ELSE [rooms EXCEPT ![k].participants = ps]
        ELSE rooms

\* handleDisconnect(socket): socket.to(socket.roomCode).emit('user-left', ...)
LeftSent(c, grp) ==
    LET k == roomCode[c]
    IN  IF Truthy(k) /\ k \in DOMAIN rooms
        THEN Broadcast(c, k, "user-left",
                 [socketId |-> SocketId(c), userName |-> userName[c]],
                 status, grp)
        ELSE <<>>

\* socket.on('leave-room', () => handleDisconnect(socket))
LeaveRoom(c) ==
    /\ ~crashed
    /\ status[c] = "connected"
    /\ rooms' = LeftRooms(c)
    /\ sent' = LeftSent(c, groups)
    /\ groups' = [groups EXCEPT                       \* socket.leave(roomCode)
                    ![c] = IF Truthy(roomCode[c]) THEN @ \ {roomCode[c]} ELSE @]
    /\ UNCHANGED <<status, roomCode, userName, now, crashed>>

\* socket.on('disconnect', ...): the transport has already taken the socket
\* out of every socket.io room when the listener runs; when it returns the
\* socket object, with its roomCode and userName, is released.
Disconnect(c) ==
    /\ ~crashed
    /\ status[c] = "connected"
    /\ status' = [status EXCEPT ![c] = "closed"]
    /\ groups' = [groups EXCEPT ![c] = {}]
    /\ rooms' = LeftRooms(c)
    /\ sent' = LeftSent(c, groups)
    /\ roomCode' = [roomCode EXCEPT ![c] = Undefined]
    /\ userName' = [userName EXCEPT ![c] = NoName]
    /\ UNCHANGED <<now, crashed>>

\* The payload a relayed event carries to its target.
RelayData(kind, c) ==
    IF kind = "offer"
    THEN [offer |-> Payload, from |-> SocketId(c), userName |-> userName[c]]
    ELSE IF kind = "answer"
    THEN [answer |-> Payload, from |-> SocketId(c)]
    ELSE [candidate |-> Payload, from |-> SocketId(c)]

\* Mutant of RelayRecipients: the relay also goes to the sender's room.
RelayRecipients_AndRoom(c, to) ==
    Recipients(c, to, status, groups)
    \cup Recipients(c, roomCode[c], status, groups)

\* socket.to(to): the sockets an offer / answer / ice-candidate goes to.
RelayRecipients(c, to) == Recipients(c, to, status, groups)

\* socket.on('offer' | 'answer' | 'ice-candidate', ({ ..., to }) => ...)
Relay(c, kind, to) ==
    /\ ~crashed
    /\ status[c] = "connected"
    /\ sent' = [i \in 1 .. Cardinality(RelayRecipients(c, to)) |->
                   Msg(kind, Nth(RelayRecipients(c, to), i), c, RelayData(kind, c))]
    /\ UNCHANGED <<rooms, status, roomCode, userName, groups, now, crashed>>

\* The event name and the payload a toggle is rebroadcast with.
PeerEvent(kind) ==
    IF kind = "toggle-audio" THEN "peer-audio-toggle"
    ELSE IF kind = "toggle-video" THEN "peer-video-toggle"
    ELSE "peer-screen-share"

\* socket.on('toggle-audio' | 'toggle-video' | 'toggle-screen-share', ...)
Toggle(c, kind, state) ==
    /\ ~crashed
    /\ status[c] = "connected"
    /\ sent' = IF Truthy(roomCode[c])
               THEN Broadcast(c, roomCode[c], PeerEvent(kind),
                        [socketId |-> SocketId(c), state |-> state],
                        status, groups)
               ELSE <<>>
    /\ UNCHANGED <<rooms, status, roomCode, userName, groups, now, crashed>>

\* new Date().toLocaleTimeString([], {hour: '2-digit', minute: '2-digit'}),
\* as the pair <<hour, minute>> of the clock value (UTC).
FormatTime(t) == <<(t \div 3600000) % 24, (t \div 60000) % 60>>

\* socket.on('chat-message', ({ text }) => ...)
ChatMessage(c) ==
    /\ ~crashed
    /\ status[c] = "connected"
    /\ sent' = IF Truthy(roomCode[c])
               THEN Broadcast(c, roomCode[c], "chat-message",
                        [text |-> Payload, userName |-> userName[c],
                         time |-> FormatTime(now)],
                        status, groups)
               ELSE <<>>
    /\ UNCHANGED <<rooms, status, roomCode, userName, groups, now, crashed>>

\* app.post('/api/rooms/create', ...)
CreateRoom(rnd) ==
    /\ ~crashed
    /\ rooms' = MapSet(rooms, generateRoomCode(rnd), NewRoom)
    /\ sent' = <<>>
    /\ UNCHANGED <<status, roomCode, userName, groups, now, crashed>>

\* Mutant of GetRoom: isFull only above the capacity.
GetRoom_FullAboveTwo(rs, code) ==
    LET k == ToUpperCase(code)
    IN  IF k \in DOMAIN rs
        THEN [exists |-> TRUE,
              participantCount |-> Len(rs[k].participants),
              isFull |-> Len(rs[k].participants) > 2]
        ELSE [exists |-> FALSE]

\* app.get('/api/rooms/:roomCode', ...): the JSON answered when the registry
\* is rs.  The request changes nothing.
GetRoom(rs, code) ==
    LET k == ToUpperCase(code)
    IN  IF k \in DOMAIN rs
        THEN [exists |-> TRUE,
              participantCount |-> Len(rs[k].participants),
              isFull |-> Len(rs[k].participants) >= 2]
        ELSE [exists |-> FALSE]

\* The HTTP client of the REST endpoints, as the receiver of a response.
HttpClient == 0

\* Mutant of RoomStatus: the read makes the room it does not find.
RoomStatus_GetOrCreate(code) ==
    /\ ~crashed
    /\ sent' = <<Msg("room-status", HttpClient, HttpClient,
                     GetRoom(rooms, code))>>
    /\ rooms' = IF ToUpperCase(code) \in DOMAIN rooms
                THEN rooms
                ELSE MapSet(rooms, ToUpperCase(code), NewRoom)
    /\ UNCHANGED <<status, roomCode, userName, groups, now, crashed>>

\* app.get('/api/rooms/:roomCode', ...): the handler reads the registry and
\* answers the request.
RoomStatus(code) ==
    /\ ~crashed
    /\ sent' = <<Msg("room-status", HttpClient, HttpClient,
                     GetRoom(rooms, code))>>
    /\ UNCHANGED <<rooms, status, roomCode, userName, groups, now, crashed>>

\* app.get('/api/health', ...): status, rooms.size and the timestamp
\* (process.uptime() is left out).
Health ==
    /\ ~crashed
    /\ sent' = <<Msg("health", HttpClient, HttpClient,
                     [status |-> "ok", rooms |-> Cardinality(DOMAIN rooms),
                      timestamp |-> now])>>
    /\ UNCHANGED <<rooms, status, roomCode, userName, groups, now, crashed>>

\* Mutant of Swept: the sweep looks at the age only.
Swept_ByAgeOnly(rs, t) ==
    [k \in {x \in DOMAIN rs : ~((t - rs[x].createdAt) > staleThreshold)} |->
        rs[k]]

\* Mutant of Swept: a tick deletes one stale empty room and stops.
Swept_OneAtATime(rs, t) ==
    LET stale == {x \in DOMAIN rs :
                     /\ Len(rs[x].participants) = 0
                     /\ (t - rs[x].createdAt) > staleThreshold}
    IN  IF stale = {}
        THEN rs
        ELSE MapDelete(rs, CHOOSE x \in stale : TRUE)

\* The registry after the setInterval callback ran at time t.
Swept(rs, t) ==
    [k \in {x \in DOMAIN rs :
               ~(Len(rs[x].participants) = 0
                 /\ (t - rs[x].createdAt) > staleThreshold)} |-> rs[k]]

\* setInterval(() => {...}, 30 * 60 * 1000): the timer fires no earlier
\* than one period after start, and may fire late.
ReaperTick ==
    /\ ~crashed
    /\ now >= ReaperInterval
    /\ rooms' = Swept(rooms, now)
    /\ sent' = <<>>
    /\ UNCHANGED <<status, roomCode, userName, groups, now, crashed>>

\* Time passes.
AdvanceClock ==
    /\ ~crashed
    /\ now < MaxClock * ClockStep
    /\ now' = now + ClockStep
    /\ UNCHANGED <<rooms, status, roomCode, userName, groups, crashed, sent>>

\* ------------------------------------------------------------ the pages
\* The page side of the signaling (the useWebRTC hook).  A page keeps one
\* socket object whose handlers are registered once; when the transport
\* drops, socket.io reconnects it under a new id and fires 'connect' again.
\* An emit and the server's handling of it are one step; the awaits inside
\* createOffer and handleOffer are not interleaved with other handlers.

\* The connection a socket id names.
SocketOf(id) == CHOOSE c \in Conns : SocketId(c) = id

\* The deliveries of a step, queued at the sockets that are still connected.
Deliver(box, st, msgs) ==
    [r \in Conns |-> IF st[r] = "connected"
                     THEN box[r] \o SelectSeq(msgs, LAMBDA m : m.to = r)
                     ELSE <<>>]

\* offers after connection c emits an offer to socket id: the offer is an
\* initial one when c has not handled an offer from that socket.
OfferSent(hist, c, id) ==
    IF <<c, SocketOf(id)>> \in hist.heard
    THEN hist
    ELSE [hist EXCEPT !.initial = @ \cup {<<c, SocketOf(id)>>}]

\* connectSocket(), and socket.io's reconnection of the page whose socket
\* c - NumClients dropped.
SocketConnect(c) ==
    /\ c > NumClients => status[c - NumClients] = "closed"
    /\ Connect(c)
    /\ UNCHANGED <<client, inbox, offers>>

\* socket.on('connect', () => socket.emit('join-room', {roomCode, userName}))
EmitJoin(c) ==
    /\ c \notin client.joinSent
    /\ \E un \in NameInputs(c) : JoinRoom(c, CodeA, un)
    /\ client' = [client EXCEPT !.joinSent = @ \cup {c}]
    /\ inbox' = Deliver(inbox, status', sent')
    /\ UNCHANGED offers

\* A handler that only writes the refs of its page.
SetRefs(c, refs1, box) ==
    /\ client' = [client EXCEPT !.refs[ClientOf(c)] = refs1]
    /\ inbox' = box
    /\ sent' = <<>>
    /\ UNCHANGED <<rooms, status, roomCode, userName, groups, now, crashed>>

\* createOffer(remoteSocketId): a new peer connection, the two refs, and
\* the offer emitted to remoteSocketId.
createOffer(c, remoteSocketId, box) ==
    /\ client' = [client EXCEPT !.refs[ClientOf(c)] =
                     [pc |-> TRUE, isInitiator |-> TRUE,
                      remote |-> remoteSocketId]]
    /\ Relay(c, "offer", remoteSocketId)
    /\ inbox' = Deliver(box, status', sent')

\* handleOffer({offer, from}): a new peer connection, the two refs, and the
\* answer emitted to from.
handleOffer(c, from, box) ==
    /\ client' = [client EXCEPT !.refs[ClientOf(c)] =
                     [pc |-> TRUE, isInitiator |-> FALSE, remote |-> from]]
    /\ Relay(c, "answer", from)
    /\ inbox' = Deliver(box, status', sent')

\* The page handles the oldest delivery of its socket c.
HandleHead(c) ==
    /\ ~crashed
    /\ inbox[c] /= <<>>
    /\ LET m == Head(inbox[c])
           refs == client.refs[ClientOf(c)]
           rest == [inbox EXCEPT ![c] = Tail(@)]
       IN  IF m.ev = "room-joined"
           THEN /\ SetRefs(c, [refs EXCEPT !.isInitiator = m.data.isInitiator],
                           rest)
                /\ UNCHANGED offers
           ELSE IF m.ev = "user-joined"
           THEN /\ createOffer(c, m.data.socketId, rest)
                /\ offers' = OfferSent(
                      [offers EXCEPT
                          !.invited = @ \cup {<<c, SocketOf(m.data.socketId)>>}],
                      c, m.data.socketId)
           ELSE IF m.ev = "existing-user"
           THEN /\ SetRefs(c, [refs EXCEPT !.remote = m.data.socketId], rest)
                /\ UNCHANGED offers
           ELSE IF m.ev = "offer"
           THEN /\ handleOffer(c, m.data.from, rest)
                /\ offers' = [offers EXCEPT
                                 !.heard = @ \cup {<<c, SocketOf(m.data.from)>>}]
           ELSE IF m.ev = "user-left"
           THEN /\ SetRefs(c, [refs EXCEPT !.pc = FALSE], rest)
                /\ UNCHANGED offers
           ELSE /\ SetRefs(c, refs, rest)      \* answer, room-full
                /\ UNCHANGED offers

\* pc.onnegotiationneeded: the browser fires it on the live peer connection
\* (tracks added, pc.restartIce() after an ICE failure); the page emits an
\* offer when isInitiatorRef and remoteSocketIdRef are both set.
Renegotiate(c) ==
    LET refs == client.refs[ClientOf(c)]
    IN  /\ refs.pc /\ refs.isInitiator /\ refs.remote /= Undefined
        /\ \A x \in Conns : Len(inbox[x]) < MaxInbox
        /\ Relay(c, "offer", refs.remote)
        /\ inbox' = Deliver(inbox, status', sent')
        /\ offers' = OfferSent(offers, c, refs.remote)
        /\ UNCHANGED client

\* The transport of socket c drops: the server runs its disconnect
\* listener, the page's 'disconnect' handler only logs and keeps the refs.
TransportDrop(c) ==
    /\ Disconnect(c)
    /\ inbox' = Deliver(inbox, status', sent')
    /\ UNCHANGED <<client, offers>>

\* ------------------------------------------------- the ICE candidates
\* The candidates the pages exchange.  pendingIceCandidatesRef holds bare
\* candidates; the model tags each with the socket that sent it and with
\* its arrival number at the page, to tell the candidates apart.
\* handleOffer and handleAnswer are suspended at their await of
\* setRemoteDescription and resumed in a later step; while one is
\* suspended the page handles ice-candidate and user-left deliveries.

\* The ice state of the page of socket c becomes st.
SetIce(c, st) == ice' = [ice EXCEPT ![ClientOf(c)] = st]

\* createPeerConnection(remoteSocketId): a new RTCPeerConnection.
NewPc(remoteSocketId) == [NoPc EXCEPT !.peer = remoteSocketId]

\* while (pending.length > 0) { pc.addIceCandidate(pending.shift()) }
Drained(st) ==
    [st EXCEPT !.added = @ \o [i \in 1 .. Len(st.pending) |->
                                  [from |-> st.pending[i].from,
                                   n |-> st.pending[i].n,
                                   peer |-> st.pc.peer,
                                   queued |-> TRUE]],
               !.pending = <<>>]

\* handleIceCandidate({candidate, from}): added to the peer connection when
\* it has a remote description, pushed on the queue otherwise.
handleIceCandidate(st, hasPc, from) ==
    LET n == st.received + 1
    IN  IF hasPc /\ st.pc.remoteDescription
        THEN [st EXCEPT !.received = n,
                        !.added = Append(@, [from |-> from, n |-> n,
                                             peer |-> st.pc.peer,
                                             queued |-> FALSE])]
        ELSE [st EXCEPT !.received = n,
                        !.pending = Append(@, [from |-> from, n |-> n])]

\* handleOffer up to its first await: the new peer connection and the refs.
OfferReceived(c, from, box) ==
    /\ SetRefs(c, [pc |-> TRUE, isInitiator |-> FALSE, remote |-> from], box)
    /\ SetIce(c, [ice[ClientOf(c)] EXCEPT
                     !.pc = NewPc(from),
                     !.task = [kind |-> "offer", from |-> from,
                               closed |-> FALSE]])
    /\ offers' = [offers EXCEPT !.heard = @ \cup {<<c, SocketOf(from)>>}]

\* The page handles the oldest delivery of its socket c, candidates
\* included.
HandleIce(c) ==
    /\ inbox[c] /= <<>>
    /\ LET m == Head(inbox[c])
           st == ice[ClientOf(c)]
           refs == client.refs[ClientOf(c)]
       IN  IF m.ev = "ice-candidate"
           THEN /\ HandleHead(c)
                /\ SetIce(c, handleIceCandidate(st, refs.pc, m.data.from))
           ELSE IF m.ev = "user-left"
           THEN /\ HandleHead(c)
                /\ SetIce(c, [st EXCEPT
                      !.pc = NoPc,
                      !.task = IF @.kind = "none" THEN @
                               ELSE [@ EXCEPT !.closed = TRUE]])
           ELSE /\ st.task.kind = "none"
                /\ IF m.ev = "offer"
                   THEN /\ ~crashed
                        /\ OfferReceived(c, m.data.from,
                                         [inbox EXCEPT ![c] = Tail(@)])
                   ELSE IF m.ev = "answer"
                   THEN /\ HandleHead(c)
                        /\ SetIce(c,
                              IF refs.pc /\ st.pc.signalingState /= "stable"
                              THEN [st EXCEPT !.task =
                                       [kind |-> "answer",
                                        from |-> m.data.from,
                                        closed |-> FALSE]]
                              ELSE st)
                   ELSE IF m.ev = "user-joined"
                   THEN /\ HandleHead(c)
                        /\ SetIce(c, [st EXCEPT
                              !.pc = [NewPc(m.data.socketId) EXCEPT
                                         !.localDescription = TRUE,
                                         !.signalingState =
                                             "have-local-offer"]])
                   ELSE /\ HandleHead(c)
                        /\ UNCHANGED ice

\* The suspended handler of the page of socket c resumes.  On a peer
\* connection that was closed meanwhile setRemoteDescription does not
\* succeed and the handler adds and emits nothing; otherwise the remote
\* description is set and the queue is emptied into the peer connection,
\* and handleOffer emits its answer.
Resume(c) ==
    LET st == ice[ClientOf(c)]
        done == [st EXCEPT !.task = NoTask]
        set == [done EXCEPT !.pc.remoteDescription = TRUE,
                            !.pc.signalingState = "stable"]
    IN  /\ ~crashed
        /\ status[c] = "connected"
        /\ st.task.kind /= "none"
        /\ UNCHANGED <<client, offers>>
        /\ IF st.task.closed
           THEN /\ SetIce(c, done)
                /\ sent' = <<>>
                /\ UNCHANGED <<rooms, status, roomCode, userName, groups,
                               now, crashed, inbox>>
           ELSE IF st.task.kind = "offer"
           THEN /\ SetIce(c, Drained([set EXCEPT
                                         !.pc.localDescription = TRUE]))
                /\ Relay(c, "answer", st.task.from)
                /\ inbox' = Deliver(inbox, status', sent')
           ELSE /\ SetIce(c, Drained(set))
                /\ sent' = <<>>
                /\ UNCHANGED <<rooms, status, roomCode, userName, groups,
                               now, crashed, inbox>>

\* pc.onicecandidate: the peer connection of the page of socket c, once it
\* has a local description, hands the page a candidate, which the page
\* emits to the socket the peer connection was created for.
EmitCandidate(c) ==
    LET st == ice[ClientOf(c)]
    IN  /\ client.refs[ClientOf(c)].pc
        /\ st.pc.localDescription
        /\ st.emitted < MaxCandidates
        /\ \A x \in Conns : Len(inbox[x]) < MaxInbox
        /\ Relay(c, "ice-candidate", st.pc.peer)
        /\ inbox' = Deliver(inbox, status', sent')
        /\ SetIce(c, [st EXCEPT !.emitted = @ + 1])
        /\ UNCHANGED <<client, offers>>

\* ------------------------------------------------------------ history
\* The entries the registry lists, as <<room code, socket id>> pairs.
Listed(rs) ==
    UNION {{<<k, rs[k].participants[i].socketId>> :
               i \in 1 .. Len(rs[k].participants)} : k \in DOMAIN rs}

\* answers maps every listed entry to the isInitiator value of the
\* room-joined reply that answered its join.  An entry appears only by an
\* accepted join-room, whose first delivery is that reply.
TrackAnswers ==
    /\ answers' = [e \in Listed(rooms') |->
                   IF e \in DOMAIN answers /\ e \in Listed(rooms)
                   THEN answers[e]
                   ELSE sent'[1].data.isInitiator]
    /\ reaped' = <<>>
    /\ UNCHANGED <<client, inbox, offers, active, ice>>
NoHistory ==
    /\ UNCHANGED answers
    /\ reaped' = <<>>
    /\ UNCHANGED <<client, inbox, offers, active, ice>>

\* Right after a reaper tick, reaped holds the set of codes it deleted.
TrackReaper ==
    /\ UNCHANGED answers
    /\ reaped' = <<DOMAIN rooms \ DOMAIN rooms'>>
    /\ UNCHANGED <<client, inbox, offers, active, ice>>

\* active maps every room to the time it was created or its participants
\* last changed, whichever is later.
ActiveAfter ==
    [k \in DOMAIN rooms' |->
        IF k \in DOMAIN rooms /\ rooms'[k] = rooms[k] THEN active[k] ELSE now]
TrackActivity ==
    /\ active' = ActiveAfter
    /\ reaped' = <<>>
    /\ UNCHANGED <<answers, client, inbox, offers, ice>>
TrackTickActivity ==
    /\ active' = ActiveAfter
    /\ reaped' = <<DOMAIN rooms \ DOMAIN rooms'>>
    /\ UNCHANGED <<answers, client, inbox, offers, ice>>

\* -------------------------------------------------------- specifications
\* The roomCode values of join-room: every spelling of both codes, or the
\* spellings of one code, and the request that carries none.
AnyRoom == RawCodes \cup {Undefined}
OneRoom == {LowerA, CodeA, Undefined}

\* The registry: connections that come and go in one room, the REST
\* requests that create rooms, the reaper and the clock.
Next ==
    \/ (\E c \in Conns : Connect(c)) /\ NoHistory
    \/ (\E c \in Conns, rc \in OneRoom :
           \E un \in NameInputs(c) : JoinRoom(c, rc, un)) /\ NoHistory
    \/ (\E c \in Conns : LeaveRoom(c)) /\ NoHistory
    \/ (\E c \in Conns : Disconnect(c)) /\ NoHistory
    \/ (\E rnd \in RandomDraws : CreateRoom(rnd)) /\ NoHistory
    \/ ReaperTick /\ TrackReaper
    \/ AdvanceClock /\ NoHistory

Spec == Init /\ [][Next]_vars

\* Connections that come and go between two rooms.
NextRooms ==
    \/ (\E c \in Conns : Connect(c)) /\ NoHistory
    \/ (\E c \in Conns, rc \in AnyRoom :
           \E un \in NameInputs(c) : JoinRoom(c, rc, un)) /\ NoHistory
    \/ (\E c \in Conns : LeaveRoom(c)) /\ NoHistory
    \/ (\E c \in Conns : Disconnect(c)) /\ NoHistory

SpecRooms == Init /\ [][NextRooms]_vars

\* The same, with the history of the room-joined replies.
NextPairing ==
    \/ (\E c \in Conns : Connect(c)) /\ TrackAnswers
    \/ (\E c \in Conns, rc \in AnyRoom :
           \E un \in NameInputs(c) : JoinRoom(c, rc, un)) /\ TrackAnswers
    \/ (\E c \in Conns : LeaveRoom(c)) /\ TrackAnswers
    \/ (\E c \in Conns : Disconnect(c)) /\ TrackAnswers

SpecPairing == Init /\ [][NextPairing]_vars

\* The signaling traffic of the connections: relays, toggles and chat.
NextSignal ==
    \/ (\E c \in Conns : Connect(c)) /\ NoHistory
    \/ (\E c \in Conns, rc \in AnyRoom :
           \E un \in NameInputs(c) : JoinRoom(c, rc, un)) /\ NoHistory
    \/ (\E c \in Conns : LeaveRoom(c)) /\ NoHistory
    \/ (\E c \in Conns : Disconnect(c)) /\ NoHistory
    \/ (\E c \in Conns, kind \in RelayKinds, to \in Targets :
           Relay(c, kind, to)) /\ NoHistory
    \/ (\E c \in Conns, kind \in ToggleKinds : Toggle(c, kind, TRUE))
          /\ NoHistory
    \/ (\E c \in Conns : ChatMessage(c)) /\ NoHistory

SpecSignal == Init /\ [][NextSignal]_vars

\* The pages of one room: sockets that connect, join, handle what is
\* delivered to them, renegotiate, drop and reconnect.
PagesOnly == UNCHANGED <<answers, active, ice>> /\ reaped' = <<>>

NextClient ==
    \/ (\E c \in Conns : SocketConnect(c)) /\ PagesOnly
    \/ (\E c \in Conns : EmitJoin(c)) /\ PagesOnly
    \/ (\E c \in Conns : HandleHead(c)) /\ PagesOnly
    \/ (\E c \in Conns : Renegotiate(c)) /\ PagesOnly
    \/ (\E c \in Conns : TransportDrop(c)) /\ PagesOnly

SpecClient == Init /\ [][NextClient]_vars

\* The pages of one room with the candidates they exchange.
PagesIce == UNCHANGED <<answers, active>> /\ reaped' = <<>>

NextIce ==
    \/ (\E c \in Conns : SocketConnect(c)) /\ PagesOnly
    \/ (\E c \in Conns : EmitJoin(c)) /\ PagesOnly
    \/ (\E c \in Conns : HandleIce(c)) /\ PagesIce
    \/ (\E c \in Conns : Resume(c)) /\ PagesIce
    \/ (\E c \in Conns : EmitCandidate(c)) /\ PagesIce
    \/ (\E c \in Conns : TransportDrop(c)) /\ PagesOnly

SpecIce == Init /\ [][NextIce]_vars

\* The registry of Spec, with the history of each room's last activity.
NextIdle ==
    \/ (\E c \in Conns : Connect(c)) /\ TrackActivity
    \/ (\E c \in Conns, rc \in OneRoom :
           \E un \in NameInputs(c) : JoinRoom(c, rc, un)) /\ TrackActivity
    \/ (\E c \in Conns : LeaveRoom(c)) /\ TrackActivity
    \/ (\E c \in Conns : Disconnect(c)) /\ TrackActivity
    \/ (\E rnd \in RandomDraws : CreateRoom(rnd)) /\ TrackActivity
    \/ ReaperTick /\ TrackTickActivity
    \/ AdvanceClock /\ TrackActivity

SpecIdle == Init /\ [][NextIdle]_vars

\* The registry of two rooms with the reaper and the clock, run to the
\* end: every connection that is open is eventually closed, the interval
\* timer keeps firing and time keeps passing.  Two connections are enough
\* to fill a room; create-room is taken while the modelled clock can still
\* carry the room past the threshold.
DrainConns == 1 .. NumConns - 1

NextDrain ==
    \/ (\E c \in DrainConns : Connect(c)) /\ NoHistory
    \/ (\E c \in DrainConns, rc \in GenCodes :
           \E un \in NameInputs(c) : JoinRoom(c, rc, un)) /\ NoHistory
    \/ (\E c \in DrainConns : LeaveRoom(c)) /\ NoHistory
    \/ (\E c \in DrainConns : Disconnect(c)) /\ NoHistory
    \/ (\E rnd \in RandomDraws :
           now + 2 * ClockStep <= MaxClock * ClockStep /\ CreateRoom(rnd))
          /\ NoHistory
    \/ ReaperTick /\ TrackReaper
    \/ AdvanceClock /\ NoHistory

FairDrain ==
    /\ \A c \in DrainConns : WF_vars(Disconnect(c) /\ NoHistory)
    /\ WF_vars(ReaperTick /\ TrackReaper)
    /\ WF_vars(AdvanceClock /\ NoHistory)

SpecDrain == Init /\ [][NextDrain]_vars /\ FairDrain

\* The generator: create-room requests over a wider set of random draws.
NextCodes ==
    \/ (\E rnd \in CodeDraws : CreateRoom(rnd)) /\ NoHistory

SpecCodes == Init /\ [][NextCodes]_vars

\* The operations that only read the registry or relay (the two GET
\* endpoints, offer / answer / ice-candidate, toggles and chat) next to the
\* ones that write it for one room.
NextReads ==
    \/ (\E c \in Conns : Connect(c)) /\ NoHistory
    \/ (\E c \in Conns, rc \in OneRoom :
           \E un \in NameInputs(c) : JoinRoom(c, rc, un)) /\ NoHistory
    \/ (\E c \in Conns : LeaveRoom(c)) /\ NoHistory
    \/ (\E c \in Conns : Disconnect(c)) /\ NoHistory
    \/ (\E rnd \in RandomDraws : CreateRoom(rnd)) /\ NoHistory
    \/ (\E code \in RawCodes : RoomStatus(code)) /\ NoHistory
    \/ Health /\ NoHistory
    \/ (\E c \in Conns, kind \in RelayKinds, to \in Targets :
           Relay(c, kind, to)) /\ NoHistory
    \/ (\E c \in Conns, kind \in ToggleKinds : Toggle(c, kind, TRUE))
          /\ NoHistory
    \/ (\E c \in Conns : ChatMessage(c)) /\ NoHistory

SpecReads == Init /\ [][NextReads]_vars

\* ----------------------------------------------------------------- claims
\* Connection c is listed among the participants of room k of registry rs.
IsListed(rs, k, c) ==
    /\ k \in DOMAIN rs
    /\ \E i \in 1 .. Len(rs[k].participants) :
          rs[k].participants[i].socketId = SocketId(c)

\* The number of deliveries of event ev to connection r among msgs.
Deliveries(msgs, r, ev) ==
    Cardinality({i \in 1 .. Len(msgs) : msgs[i].to = r /\ msgs[i].ev = ev})

\* The events the server forwards from one connection to others.
Forwarded ==
    RelayKinds \cup {PeerEvent(kind) : kind \in ToggleKinds} \cup {"chat-message"}

\* C1: in every reachable state, whatever the interleaving of join-room,
\* leave-room, disconnect, create-room and reaper ticks, every room of the
\* registry holds at most 2 participants.
C1_AtMostTwoParticipants ==
    \A k \in DOMAIN rooms : Len(rooms[k].participants) <= 2

\* C1 witness: a third join-room has just been refused by a room of two, and
\* the clock has advanced far enough for the reaper to run.
C1_Witness ==
    /\ now >= ReaperInterval
    /\ \E k \in DOMAIN rooms : Len(rooms[k].participants) = 2
    /\ \E c \in Conns : Deliveries(sent, c, "room-full") = 1

C3_ExactlyOneUserLeft ==
    [][\A c \in Conns :
          (LeaveRoom(c) \/ Disconnect(c)) =>
              \A r \in Conns \ {c} :
                  /\ Deliveries(sent', r, "user-left") =
                        IF /\ IsListed(rooms, roomCode[c], c)
                           /\ IsListed(rooms, roomCode[c], r)
                           /\ status[r] = "connected"
                        THEN 1 ELSE 0
                  /\ \A i \in 1 .. Len(sent') :
                        sent'[i].data.socketId = SocketId(c)]_vars

\* C4: an offer, answer or ice-candidate that connection c sends with
\* to = the id of connection x is delivered to x and to no other connection,
\* and carries from = c's id.  A relay step that delivers anything has its
\* sender c and its kind in its first delivery, so x is the only unknown.
C4_RelayOnlyToTarget ==
    [][(sent' /= <<>> /\ sent'[1].ev \in RelayKinds) =>
          \A x \in Conns :
              Relay(sent'[1].by, sent'[1].ev, SocketId(x)) =>
                  /\ Len(sent') = 1
                  /\ sent'[1].to = x
                  /\ sent'[1].data.from = SocketId(sent'[1].by)]_vars

\* C4 witness: an offer from a participant of one room reached its peer in
\* that room, and only it, while a connection sits in the other room.
C4_Witness ==
    /\ Len(sent) = 1
    /\ sent[1].ev = "offer"
    /\ IsListed(rooms, CodeA, sent[1].by)
    /\ IsListed(rooms, CodeA, sent[1].to)
    /\ \E b \in Conns : status[b] = "connected" /\ IsListed(rooms, CodeB, b)

\* C5: every connection that receives a forwarded offer, answer,
\* ice-candidate, toggle or chat message is listed in a room together with
\* the connection that sent it.
C5_ForwardedStaysInRoom ==
    \A i \in 1 .. Len(sent) :
        sent[i].ev \in Forwarded =>
            \E k \in DOMAIN rooms :
                IsListed(rooms, k, sent[i].by) /\ IsListed(rooms, k, sent[i].to)

\* C6: a join-room for a room that already has 2 participants delivers
\* room-full to the requester and nothing to anybody else, and leaves the
\* registry, the sessions and the broadcast groups as they were.
C6_FullRoomRejects ==
    [][\A c \in Conns, rc \in RawCodes :
          \A un \in NameInputs(c) :
              (/\ JoinRoom(c, rc, un)
               /\ ToUpperCase(rc) \in DOMAIN rooms
               /\ Len(rooms[ToUpperCase(rc)].participants) >= 2) =>
                  /\ Len(sent') = 1
                  /\ sent'[1].ev = "room-full"
                  /\ sent'[1].to = c
                  /\ rooms' = rooms
                  /\ roomCode' = roomCode
                  /\ userName' = userName
                  /\ groups' = groups]_vars

\* C6 witness: room-full has just been delivered to a connection that is
\* not one of the two participants of the room.
C6_Witness ==
    /\ Len(sent) = 1
    /\ sent[1].ev = "room-full"
    /\ \E k \in DOMAIN rooms :
          /\ Len(rooms[k].participants) = 2
          /\ ~IsListed(rooms, k, sent[1].to)

\* C7: a leave-room or disconnect leaves no room empty: every room that has
\* no participant after it was in the registry, unchanged and already
\* empty, before it, so the room whose last participant it removed is gone.
C7_EmptiedRoomIsDeleted ==
    [][\A c \in Conns :
          (LeaveRoom(c) \/ Disconnect(c)) =>
              \A k \in DOMAIN rooms' :
                  Len(rooms'[k].participants) = 0 =>
                      k \in DOMAIN rooms /\ rooms[k] = rooms'[k]]_vars

\* C7 witness: before the reaper can have run, a live connection's room is
\* absent from the registry: its leave-room removed the last participant.
C7_Witness ==
    /\ now < ReaperInterval
    /\ \E c \in Conns :
          /\ status[c] = "connected"
          /\ Truthy(roomCode[c])
          /\ roomCode[c] \notin DOMAIN rooms

\* C8: when a room lists two participants of which one has disconnected,
\* the leave-room or disconnect of the other one removes the room from the
\* registry: after both have left the room is absent.
C8_BothLeftRoomAbsent ==
    [][\A c \in Conns :
          (LeaveRoom(c) \/ Disconnect(c)) =>
              \A k \in DOMAIN rooms :
                  (/\ Len(rooms[k].participants) = 2
                   /\ IsListed(rooms, k, c)
                   /\ \A d \in Conns \ {c} :
                         IsListed(rooms, k, d) => status[d] = "closed") =>
                      k \notin DOMAIN rooms']_vars

\* C9: no event of a connection ends the process with an uncaught error.
C9_NoEventIsFatal == ~crashed

\* C10: an offer, answer, ice-candidate, toggle, chat-message, leave-room or
\* disconnect from a connection whose roomCode is unset delivers nothing
\* and leaves the registry unchanged.
C10_UnjoinedIsNoOp ==
    [][\A c \in Conns :
          (/\ roomCode[c] = Undefined
           /\ \/ \E kind \in RelayKinds, to \in Targets : Relay(c, kind, to)
              \/ \E kind \in ToggleKinds : Toggle(c, kind, TRUE)
              \/ ChatMessage(c)
              \/ LeaveRoom(c)
              \/ Disconnect(c)) =>
              sent' = <<>> /\ rooms' = rooms]_vars

\* The participant count the room-status read reports for code under
\* registry rs, 0 for a room that does not exist.
CountOf(rs, code) ==
    IF GetRoom(rs, code).exists THEN GetRoom(rs, code).participantCount ELSE 0

\* C11: the room-status read tracks the join sequence.  After a create-room
\* the created code reads exists with participantCount 0; a join-room the
\* server survives on a room that read n < 2 makes it read n + 1, with
\* isFull false at 1 and true at 2; a join-room on a room that reads 2 is
\* answered room-full and the read stays 2; and after every step isFull is
\* true iff participantCount >= 2.
C11_StatusTracksJoins ==
    [][/\ \A rnd \in RandomDraws :
             CreateRoom(rnd) =>
                 /\ GetRoom(rooms', generateRoomCode(rnd)).exists
                 /\ GetRoom(rooms', generateRoomCode(rnd)).participantCount = 0
       /\ \A c \in Conns, rc \in RawCodes :
             \A un \in NameInputs(c) :
                 (JoinRoom(c, rc, un) /\ ~crashed') =>
                     /\ GetRoom(rooms', rc).exists
                     /\ CountOf(rooms, rc) < 2 =>
                           /\ CountOf(rooms', rc) = CountOf(rooms, rc) + 1
                           /\ GetRoom(rooms', rc).isFull
                                 = (CountOf(rooms, rc) = 1)
                     /\ CountOf(rooms, rc) >= 2 =>
                           /\ Deliveries(sent', c, "room-full") = 1
                           /\ CountOf(rooms', rc) = 2
                           /\ GetRoom(rooms', rc).isFull
       /\ \A code \in RawCodes :
             GetRoom(rooms', code).exists =>
                 (GetRoom(rooms', code).isFull
                     <=> GetRoom(rooms', code).participantCount >= 2)]_vars

\* C11 witness: a third join-room has just been answered room-full and the
\* room reads participantCount 2 and isFull, while a room made by
\* create-room reads participantCount 0.
C11_Witness ==
    /\ \E c \in Conns : Deliveries(sent, c, "room-full") = 1
    /\ GetRoom(rooms, LowerA).exists
    /\ GetRoom(rooms, LowerA).participantCount = 2
    /\ GetRoom(rooms, LowerA).isFull
    /\ GetRoom(rooms, CodeB).exists
    /\ GetRoom(rooms, CodeB).participantCount = 0

\* The deliveries of event ev to connection r among msgs all carry the
\* socket id of connection about.
AllAbout(msgs, r, ev, about) ==
    \A i \in 1 .. Len(msgs) :
        (msgs[i].to = r /\ msgs[i].ev = ev) =>
            msgs[i].data.socketId = SocketId(about)

\* C12: an accepted join-room of connection c that makes the room's count 2
\* delivers user-joined, carrying c's id, once to the other listed
\* participant and to nobody else, and existing-user, carrying that
\* participant's id, once to c and to nobody else; an accepted join-room
\* that makes the count 1 delivers neither event.  (The names the two
\* events carry are the subject of C16.)
C12_PairingNotices ==
    [][\A c \in Conns, rc \in RawCodes :
          \A un \in NameInputs(c) :
              (/\ JoinRoom(c, rc, un)
               /\ ~crashed'
               /\ Deliveries(sent', c, "room-joined") = 1) =>
                  LET k == ToUpperCase(rc)
                      n == Len(rooms'[k].participants)
                  IN  /\ n = 1 =>
                            \A r \in Conns :
                                /\ Deliveries(sent', r, "user-joined") = 0
                                /\ Deliveries(sent', r, "existing-user") = 0
                      /\ n = 2 =>
                            \E o \in Conns \ {c} :
                                /\ IsListed(rooms', k, o)
                                /\ Deliveries(sent', o, "user-joined") = 1
                                /\ AllAbout(sent', o, "user-joined", c)
                                /\ Deliveries(sent', c, "existing-user") = 1
                                /\ AllAbout(sent', c, "existing-user", o)
                                /\ \A r \in Conns :
                                      /\ r /= o =>
                                            Deliveries(sent', r, "user-joined") = 0
                                      /\ r /= c =>
                                            Deliveries(sent', r, "existing-user") = 0]_vars

\* C13: a create-room request returns a code that was not in the registry:
\* the registry grows by exactly that one room and every room it held is
\* unchanged.
C13_CreateRoomIsFresh ==
    [][\A rnd \in RandomDraws :
          CreateRoom(rnd) =>
              /\ generateRoomCode(rnd) \notin DOMAIN rooms
              /\ DOMAIN rooms' = DOMAIN rooms \cup {generateRoomCode(rnd)}
              /\ \A k \in DOMAIN rooms : rooms'[k] = rooms[k]]_vars

C15_StaleEmptyRoomSwept ==
    [][/\ ReaperTick =>
             \A k \in DOMAIN rooms :
                 Len(rooms[k].participants) = 0 =>
                     /\ k \notin DOMAIN rooms'
                           <=> (now - rooms[k].createdAt) > staleThreshold
                     /\ k \in DOMAIN rooms' => rooms'[k] = rooms[k]
       /\ ~crashed' =>
             \A k \in DOMAIN rooms :
                 (/\ Len(rooms[k].participants) = 0
                  /\ (now - rooms[k].createdAt) <= staleThreshold) =>
                     k \in DOMAIN rooms']_vars

\* The reaper's part of C15 alone: what a tick does to the empty rooms.
C15_TickRule ==
    [][ReaperTick =>
          \A k \in DOMAIN rooms :
              Len(rooms[k].participants) = 0 =>
                  /\ k \notin DOMAIN rooms'
                        <=> (now - rooms[k].createdAt) > staleThreshold
                  /\ k \in DOMAIN rooms' => rooms'[k] = rooms[k]]_vars

\* The display name of connection c: the userName of its join-room
\* requests, "Anonymous" when they carry none or a blank one.
DisplayName(c) == OrAnonymous(CHOOSE n \in NameInputs(c) : TRUE)

\* The connection a delivery is about: the sender of an offer, the
\* connection named by socketId in the other events.
About(m) ==
    CHOOSE c \in Conns :
        SocketId(c) = (IF m.ev = "offer" THEN m.data.from ELSE m.data.socketId)

\* C16: every user-joined, existing-user and user-left delivery, and every
\* offer delivery between two connections listed in the same room, carries
\* as userName the display name of the connection it is about: the name
\* given at join, "Anonymous" when none or a blank one was given.
C16_PeersSeeDisplayName ==
    \A i \in 1 .. Len(sent) :
        (\/ sent[i].ev \in {"user-joined", "existing-user", "user-left"}
         \/ /\ sent[i].ev = "offer"
            /\ \E k \in DOMAIN rooms :
                  /\ IsListed(rooms, k, sent[i].by)
                  /\ IsListed(rooms, k, sent[i].to)) =>
            sent[i].data.userName = DisplayName(About(sent[i]))

\* The connected connections other than c that the registry lists in the
\* room of c.
Peers(c) ==
    {r \in Conns \ {c} :
        status[r] = "connected" /\ IsListed(rooms, roomCode[c], r)}

C18_CaseInsensitiveCodes ==
    [][/\ \A k \in DOMAIN rooms' : ToUpperCase(k) = k
       /\ \A c \in Conns :
             Truthy(roomCode'[c]) => ToUpperCase(roomCode'[c]) = roomCode'[c]
       /\ LowerA /= CodeA
       /\ GetRoom(rooms', LowerA) = GetRoom(rooms', CodeA)
       /\ \A c \in Conns :
             \A un \in NameInputs(c) :
                 JoinRoom(c, LowerA, un) <=> JoinRoom(c, CodeA, un)]_vars

\* C18 witness: the room-status read with the lower-case spelling reports
\* the two participants of the room stored under the upper-case key, and a
\* session holds the upper-case code.
C18_Witness ==
    /\ LowerA \notin DOMAIN rooms
    /\ CodeA \in DOMAIN rooms
    /\ GetRoom(rooms, LowerA).exists
    /\ GetRoom(rooms, LowerA).participantCount = 2
    /\ \E c \in Conns : roomCode[c] = CodeA

\* C19: join-room is create-then-join.  A join-room on a code that is absent
\* from the registry and a join-room on a code whose room exists and is
\* empty (made by create-room) have the same outcome, which depends on the
\* request only: the requester alone is answered, with room-joined,
\* participantCount 1 and isInitiator true, and the room exists afterwards
\* with the requester as its only participant.
C19_JoinIsCreateThenJoin ==
    [][\A c \in Conns, rc \in RawCodes :
          \A un \in NameInputs(c) :
              (/\ JoinRoom(c, rc, un)
               /\ \/ ToUpperCase(rc) \notin DOMAIN rooms
                  \/ Len(rooms[ToUpperCase(rc)].participants) = 0) =>
                  /\ ~crashed'
                  /\ sent' = <<Msg("room-joined", c, c,
                                   [roomCode |-> ToUpperCase(rc),
                                    participantCount |-> 1,
                                    isInitiator |-> TRUE])>>
                  /\ ToUpperCase(rc) \in DOMAIN rooms'
                  /\ rooms'[ToUpperCase(rc)].participants
                        = <<[socketId |-> SocketId(c),
                             userName |-> OrAnonymous(un)]>>]_vars

\* C19 witness: a join-room has just been answered participantCount 1 and
\* isInitiator true in a room that is older than the clock shows, next to
\* an empty room made by create-room.
C19_Witness ==
    /\ Len(sent) = 1
    /\ sent[1].ev = "room-joined"
    /\ sent[1].data.participantCount = 1
    /\ sent[1].data.isInitiator
    /\ sent[1].data.roomCode \in DOMAIN rooms
    /\ Len(rooms[sent[1].data.roomCode].participants) = 1
    /\ rooms[sent[1].data.roomCode].createdAt < now
    /\ \E k \in DOMAIN rooms : Len(rooms[k].participants) = 0

\* C20: exactly one side of a pair initiates.  An offer is an initial one
\* when its sender has not yet handled an offer from the socket it goes to;
\* the connection that was already in the room sends one when it handles
\* user-joined, the joiner sends none, so no two connections ever both
\* send an initial offer to each other.
C20_OneSideInitiates ==
    \A x, y \in Conns :
        ~(<<x, y>> \in offers.initial /\ <<y, x>> \in offers.initial)

\* C21: the append is the serialization point of two joins on the same empty
\* room.  Handlers run one at a time, so whichever join is handled first
\* finds the room empty and is answered participantCount 1 and isInitiator
\* true; the other finds that one participant and is answered
\* participantCount 2 and isInitiator false: at most one of the two is told
\* it is the initiator and the two counts are 1 and 2.
C21_JoinsSerialize ==
    [][(sent' /= <<>> /\ sent'[1].ev = "room-joined") =>
          LET k == sent'[1].data.roomCode
              d == sent'[1].data
          IN  /\ CountOf(rooms, k) = 0 =>
                     d.participantCount = 1 /\ d.isInitiator
              /\ (/\ CountOf(rooms, k) = 1
                  /\ answers[<<k, rooms[k].participants[1].socketId>>]) =>
                     d.participantCount = 2 /\ ~d.isInitiator]_vars

\* C21 witness: the second of two joins on an empty room has just been
\* answered participantCount 2 and isInitiator false, the first one having
\* been answered isInitiator true.
C21_Witness ==
    /\ sent /= <<>>
    /\ sent[1].ev = "room-joined"
    /\ sent[1].data.participantCount = 2
    /\ ~sent[1].data.isInitiator
    /\ LET ps == rooms[sent[1].data.roomCode].participants
       IN  /\ Len(ps) = 2
           /\ ps[2].socketId = SocketId(sent[1].by)
           /\ ps[1].socketId /= ps[2].socketId
           /\ answers[<<sent[1].data.roomCode, ps[1].socketId>>]

\* C22: the reaper tick is idempotent.  The registry a tick leaves is a
\* fixed point of the sweep at the same current time: a second tick right
\* after the first deletes nothing and changes no room.
C22_ReaperIdempotent ==
    [][ReaperTick => Swept(rooms', now') = rooms']_vars

\* C22 witness: a tick has just deleted a room and left an empty one that
\* is not yet stale.
C22_Witness ==
    /\ reaped /= <<>>
    /\ reaped[1] /= {}
    /\ \E k \in DOMAIN rooms :
          /\ Len(rooms[k].participants) = 0
          /\ (now - rooms[k].createdAt) <= staleThreshold

\* C23: rooms auto-delete after 30 minutes of inactivity.  Right after a
\* reaper tick the registry holds no room whose creation and last join or
\* leave are all more than the threshold in the past.
C23_IdleRoomsDeleted ==
    (reaped /= <<>>) =>
        \A k \in DOMAIN rooms : (now - active[k]) <= staleThreshold

\* C24: createdAt is set at creation and never updated.  Every room that
\* is in the registry before and after a step keeps its createdAt, unless
\* the step is a create-room that drew the code of that very room.
C24_CreatedAtIsFixed ==
    [][\A k \in DOMAIN rooms \cap DOMAIN rooms' :
          rooms'[k].createdAt /= rooms[k].createdAt =>
              \E rnd \in RandomDraws :
                  CreateRoom(rnd) /\ generateRoomCode(rnd) = k]_vars

\* C24 witness: a reaper tick has just passed over a room of two whose
\* createdAt lies in the past, next to a younger room.
C24_Witness ==
    /\ reaped /= <<>>
    /\ \E k, j \in DOMAIN rooms :
          /\ Len(rooms[k].participants) = 2
          /\ rooms[k].createdAt < rooms[j].createdAt
          /\ rooms[j].createdAt <= now

\* The characters [A-Z0-9].
Alnum ==
    {"A", "B", "C", "D", "E", "F", "G", "H", "I", "J", "K", "L", "M", "N",
     "O", "P", "Q", "R", "S", "T", "U", "V", "W", "X", "Y", "Z",
     "0", "1", "2", "3", "4", "5", "6", "7", "8", "9"}

\* C25: every code the generator produces is 9 characters long, has a
\* hyphen at index 4 (the fifth character) and a character of [A-Z0-9] at
\* every other index.
C25_CodeShape ==
    \A k \in DOMAIN rooms :
        /\ Len(k) = 9
        /\ \A j \in 1 .. 9 : IF j = 5 THEN k[j] = "-" ELSE k[j] \in Alnum

\* C25 witness: the registry holds a generated code made of one digit
\* and one that mixes letters and digits.
C25_Witness ==
    /\ \E k \in DOMAIN rooms : k[1] = "9" /\ k[9] = "9"
    /\ \E k \in DOMAIN rooms :
          /\ k[1] \in {"G", "H", "I"}
          /\ k[4] \in {"1", "2", "3"}
          /\ k[6] /= k[1]

\* C26: each room follows Empty -> WaitingForPeer -> Paired -> ... -> Empty.
\* With the participant count of a code read as 0 while it has no room, in
\* every step the server survives the count of every code changes by at
\* most 1 (no step takes a room from 2 to 0 or from 0 to 2), an accepted
\* join raises the count of its room by exactly 1, and a leave-room or
\* disconnect of a listed connection lowers the count of its room by
\* exactly 1.
C26_RoomStateMachine ==
    [][~crashed' =>
          /\ \A k \in GenCodes :
                 CountOf(rooms', k) - CountOf(rooms, k) \in {-1, 0, 1}
          /\ (sent' /= <<>> /\ sent'[1].ev = "room-joined"
                  /\ rooms' /= rooms) =>
                 CountOf(rooms', sent'[1].data.roomCode)
                    = CountOf(rooms, sent'[1].data.roomCode) + 1
          /\ \A c \in Conns :
                 ((LeaveRoom(c) \/ Disconnect(c))
                    /\ IsListed(rooms, roomCode[c], c)) =>
                 CountOf(rooms', roomCode[c])
                    = CountOf(rooms, roomCode[c]) - 1]_vars

\* C27: read and relay operations have no effect on the registry.  A step
\* that changes the set of rooms, or the participants or createdAt of a
\* room, is never a room-status or health request, an offer, answer or
\* ice-candidate, a toggle or a chat-message.
C27_ReadsKeepRegistry ==
    [][rooms' /= rooms =>
          /\ \A code \in RawCodes : ~RoomStatus(code)
          /\ ~Health
          /\ \A c \in Conns :
                 /\ \A kind \in RelayKinds, to \in Targets : ~Relay(c, kind, to)
                 /\ \A kind \in ToggleKinds : ~Toggle(c, kind, TRUE)
                 /\ ~ChatMessage(c)]_vars

\* C27 witness: a room-status request has just been answered isFull for a
\* room of two, next to a second room.
C27_Witness ==
    /\ Len(sent) = 1
    /\ sent[1].ev = "room-status"
    /\ sent[1].data.exists
    /\ sent[1].data.isFull
    /\ \E k, j \in DOMAIN rooms :
          k /= j /\ Len(rooms[k].participants) = 2

\* C28: no ghost participants.  Every participant entry of every room names
\* a connection that is connected and whose session roomCode is that room.
C28_NoGhostParticipants ==
    \A k \in DOMAIN rooms :
        \A i \in 1 .. Len(rooms[k].participants) :
            LET c == SocketOf(rooms[k].participants[i].socketId)
            IN  status[c] = "connected" /\ roomCode[c] = k

\* The <<room, index>> positions at which connection c is listed.
Entries(rs, c) ==
    {<<k, i>> \in (DOMAIN rs) \X (1 .. 3) :
        /\ i <= Len(rs[k].participants)
        /\ rs[k].participants[i].socketId = SocketId(c)}

\* C29: a connection id appears in at most one room's participant list and
\* at most once within it, so the two participants of a full room are two
\* distinct connections.
C29_ListedAtMostOnce ==
    \A c \in Conns : Cardinality(Entries(rooms, c)) <= 1

\* C30: the broadcast group of a room and its participant list agree.  A
\* connection is a member of the socket.io room of a code iff the registry
\* has a room of that code that lists it.
C30_GroupMatchesList ==
    \A c \in Conns :
        \A k \in GenCodes : (k \in groups[c]) <=> IsListed(rooms, k, c)

\* Connection c has left its room by leave-room and has not joined since:
\* it is connected, its roomCode is still set, and it is out of that
\* room's broadcast group (only leave-room takes a live socket out).
HasLeft(c) ==
    /\ status[c] = "connected"
    /\ Truthy(roomCode[c])
    /\ roomCode[c] \notin groups[c]

\* C31: a connection that has left its room by leave-room is treated as not
\* joined.  Until it joins again, its toggles, chat-messages, leave-rooms
\* and its disconnect deliver nothing to anyone.
C31_LeftIsNotJoined ==
    [][\A c \in Conns :
          (/\ HasLeft(c)
           /\ \/ \E kind \in ToggleKinds : Toggle(c, kind, TRUE)
              \/ ChatMessage(c)
              \/ LeaveRoom(c)
              \/ Disconnect(c)) =>
              sent' = <<>>]_vars

\* C32: a user-left is delivered only to a connection that is listed with
\* the leaver in the leaver's room at the moment the leaver is removed.  A
\* step that delivers user-left has the leaver in every delivery.
C32_UserLeftToCoParticipants ==
    [][(sent' /= <<>> /\ sent'[1].ev = "user-left") =>
          \A i \in 1 .. Len(sent') :
              LET c == sent'[i].by
              IN  /\ IsListed(rooms, roomCode[c], c)
                  /\ IsListed(rooms, roomCode[c], sent'[i].to)
                  /\ ~IsListed(rooms', roomCode[c], c)]_vars

\* C33: an offer, answer or ice-candidate results in at most one delivery
\* whatever its 'to' holds, and in none when 'to' is an unknown id or the
\* sender's own id.  A relay step that delivers anything has its sender
\* and its kind in its first delivery.
C33_RelayAtMostOneDelivery ==
    [][(sent' /= <<>> /\ sent'[1].ev \in RelayKinds) =>
          /\ Len(sent') <= 1
          /\ ~Relay(sent'[1].by, sent'[1].ev, UnknownId)
          /\ ~Relay(sent'[1].by, sent'[1].ev, SocketId(sent'[1].by))]_vars

\* C34: no room leak.  When every connection is eventually closed and the
\* reaper keeps ticking while time passes, the registry eventually becomes
\* empty and stays empty.
C34_NoRoomLeak == <>[](rooms = EmptyRooms)

\* Connection c has just been answered room-full, is listed in no room and
\* has joined no room other than a full one.
JustRejected(c) ==
    /\ sent = RoomFullReply(c)
    /\ \A k \in DOMAIN rooms : ~IsListed(rooms, k, c)
    /\ \/ roomCode[c] = Undefined
       \/ /\ roomCode[c] \in DOMAIN rooms
          /\ RoomIsFull(rooms[roomCode[c]])

\* C35: a connection whose join-room was rejected with room-full and that
\* has joined no other room does not affect the full room: its leave-room
\* or disconnect right after the rejection delivers nothing and leaves the
\* registry unchanged.
C35_RejectedJoinerIsInert ==
    [][\A c \in Conns :
          (JustRejected(c) /\ (LeaveRoom(c) \/ Disconnect(c))) =>
              sent' = <<>> /\ rooms' = rooms]_vars

\* C36: client ICE buffering.  Every candidate a page has received is on
\* its queue or has been added to a peer connection; the queue holds, in
\* arrival order, candidates received while the peer connection had no
\* remote description, and is empty whenever the page's peer connection
\* has one; the queued candidates are added in arrival order; and a queued
\* candidate is only ever added to a peer connection with the socket that
\* sent it.
C36_IceBuffering ==
    \A i \in ClientIds :
        LET st == ice[i]
        IN  /\ \A n \in 1 .. st.received :
                   \/ \E j \in DOMAIN st.pending : st.pending[j].n = n
                   \/ \E j \in DOMAIN st.added : st.added[j].n = n
            /\ \A j, k \in DOMAIN st.pending :
                   j < k => st.pending[j].n < st.pending[k].n
            /\ (client.refs[i].pc /\ st.pc.remoteDescription) =>
                   st.pending = <<>>
            /\ \A j, k \in DOMAIN st.added :
                   (j < k /\ st.added[j].queued /\ st.added[k].queued) =>
                       st.added[j].n < st.added[k].n
            /\ \A j \in DOMAIN st.added :
                   st.added[j].queued => st.added[j].from = st.added[j].peer

====
